---- MODULE Spec2Model ----
(***************************************************************************)
(* Model of convert_paddle_to_mnn.py: the conversion pipeline for OCR      *)
(* model directories (Paddle -> ONNX -> MNN, dictionary extraction) and    *)
(* the batch loop of main() that drives it.                                *)
(*                                                                         *)
(* A file name is a pair <<stem, extension>>.  A model directory is a      *)
(* record [files, partial, yml]: the names present, the names among them   *)
(* whose content was left incomplete by an interrupted or failed writer,   *)
(* and the parsed shape of inference.yml.                                  *)
(***************************************************************************)
EXTENDS Integers, Sequences, FiniteSets, TLC

\* ------------------------------------------------------------------ bounds
\* Largest number of model directories under the OCR root.  The program may
\* be started again any number of times: the directories have finitely many
\* contents, so the runs need no bound.
NumModels == 2

\* -------------------------------------------------------------- file names
INFERENCE_JSON      == <<"inference", "json">>
INFERENCE_PDIPARAMS == <<"inference", "pdiparams">>
INFERENCE_YML       == <<"inference", "yml">>
MODEL_ONNX          == <<"model", "onnx">>
MODEL_MNN           == <<"model", "mnn">>
PPOCR_KEYS          == <<"ppocr_keys", "txt">>
\* An ONNX model a user supplied under a name of their own.
FOO_ONNX            == <<"foo", "onnx">>

\* InputFormat(Enum); NONE is detect_input_format's None.
PADDLE == "paddle"
ONNX   == "onnx"
AUTO   == "auto"
NONE   == "none"
InputFormat == {PADDLE, ONNX, AUTO}

\* ------------------------------------------------------- inference.yml
\* What yaml.safe_load gives for inference.yml:
\*   load: "absent" (no file), "error" (safe_load raises), "null" (empty
\*         document, data is None), "map" (data is a mapping);
\*   pp:   data['PostProcess'] is "missing", a "dict", a "list" or "other";
\*   cd:   the character_dict found there is "missing", "empty" ([]),
\*         "chars" (a list of entries) or "scalar" (truthy, not iterable).
NoYml == [load |-> "absent", pp |-> "missing", cd |-> "missing"]
YmlDocs ==
    { NoYml,
      [load |-> "error", pp |-> "missing", cd |-> "missing"],
      [load |-> "null",  pp |-> "missing", cd |-> "missing"],
      [load |-> "map",   pp |-> "missing", cd |-> "missing"],
      [load |-> "map",   pp |-> "other",   cd |-> "missing"] }
    \cup { [load |-> "map", pp |-> p, cd |-> c] :
             p \in {"dict", "list"}, c \in {"missing", "empty", "chars", "scalar"} }

\* ------------------------------------------------------- path helpers
\* Path.exists()
Exists(d, f) == f \in d.files

\* model_path.glob("*.onnx")
GlobOnnx(d) == { f \in d.files : f[2] = "onnx" }

\* Variant: the output keeps the default name model.mnn.
DefaultMnnName(onnx_file) == MODEL_MNN

\* onnx_file.stem + ".mnn"
MnnFileFor(onnx_file) == <<onnx_file[1], "mnn">>

\* A writer created file f and did not finish it.
CreatePartial(d, f) ==
    [d EXCEPT !.files = @ \cup {f}, !.partial = @ \cup {f}]

\* A writer finished file f.
WriteComplete(d, f) ==
    [d EXCEPT !.files = @ \cup {f}, !.partial = @ \ {f}]

\* ------------------------------------------------- detect_input_format
\* Variant: the ONNX signal is tested first.
DetectPreferOnnx(d) ==
    IF GlobOnnx(d) # {} THEN ONNX
    ELSE IF Exists(d, INFERENCE_JSON) /\ Exists(d, INFERENCE_PDIPARAMS)
         THEN PADDLE ELSE NONE

\* Variant: a Paddle directory that holds model.onnx counts as converted
\* and is detected by its ONNX file.
DetectConvertedAsOnnx(d) ==
    IF Exists(d, INFERENCE_JSON) /\ Exists(d, INFERENCE_PDIPARAMS)
       /\ ~Exists(d, MODEL_ONNX)
    THEN PADDLE
    ELSE IF GlobOnnx(d) # {} THEN ONNX ELSE NONE

detect_input_format(d) ==
    LET has_paddle == Exists(d, INFERENCE_JSON) /\ Exists(d, INFERENCE_PDIPARAMS)
        has_onnx   == GlobOnnx(d) # {}
    IN  IF has_paddle THEN PADDLE
        ELSE IF has_onnx THEN ONNX
        ELSE NONE

\* ------------------------------------------------------------- state
VARIABLES
    root_exists,    \* the --ocr-dir directory exists
    fs,             \* model directory name -> directory record
    pc,             \* position of the running process, "idle" when none runs
    exit_status,    \* how the last ended process ended: "none" (no process
                    \* ended yet), "0", "1" or "killed"
    args,           \* parsed command line: [model, format]
    model_dirs,     \* main: model_dirs, in the order the directory listing gave
    todo,           \* main: sorted(model_dirs), the list the for loop walks
    idx,            \* main: position of the for loop in todo
    total,          \* main: total
    success_count,  \* main: success_count
    failed_models,  \* main: failed_models
    input_format,   \* convert_model: the resolved input_format
    onnx_filename,  \* convert_onnx_to_mnn: onnx_filename of the current call
    mnn_filename,   \* convert_onnx_to_mnn: mnn_filename of the current call
    results,        \* convert_model: results
    calls,          \* the subprocess.run calls of the current convert_model:
                    \* command line and how the call ended
    stages_run,     \* stage functions called by the current convert_model
    dir0,           \* the directory as it was when the current convert_model began
    log,            \* per finished loop iteration: <<name, "ok" | "fail" | "raise">>
    prev,           \* <<name, format argument>> of the latest call of
                    \* convert_model if it returned, NoPrev otherwise
    again           \* the current call of convert_model directly follows a
                    \* returned call for the same directory and format argument

env   == <<root_exists, fs>>
proc  == <<pc, exit_status, args>>
batch == <<model_dirs, todo, idx, total, success_count, failed_models>>
cm    == <<input_format, onnx_filename, mnn_filename, results, calls>>
ghost == <<stages_run, dir0, log, prev, again>>
vars  == <<env, proc, batch, cm, ghost>>

\* ------------------------------------------------------- directories
\* Directory names are sequences of characters (here small numbers), which
\* Path ordering compares lexicographically.
Name(i) == IF i % 2 = 1 THEN <<i>> ELSE <<1, i>>

\* A path given with --model that does not exist.
MissingModel == <<0>>
\* args.model when --model is not given.
NoModel == <<>>

\* No call of convert_model has returned since the last one began.
NoPrev == <<NoModel, NONE>>

EmptyDir == [files |-> {}, partial |-> {}, yml |-> NoYml]

MkDir(inputs, doc) ==
    [files   |-> inputs \cup (IF doc = NoYml THEN {} ELSE {INFERENCE_YML}),
     partial |-> {},
     yml     |-> doc]

\* Directories as a user prepares them: any of the input files, any
\* inference.yml, no output of an earlier conversion.
UserDirs ==
    { MkDir(inputs, doc) :
        inputs \in SUBSET {INFERENCE_JSON, INFERENCE_PDIPARAMS, MODEL_ONNX, FOO_ONNX},
        doc \in YmlDocs }

\* Directories a user has tidied after an earlier conversion: model.mnn
\* or ppocr_keys.txt kept, inference.yml and any of the other files removed.
StrippedDirs ==
    { [files |-> kept \cup rest, partial |-> {}, yml |-> NoYml] :
        kept \in (SUBSET {MODEL_MNN, PPOCR_KEYS}) \ {{}},
        rest \in SUBSET {INFERENCE_JSON, INFERENCE_PDIPARAMS, MODEL_ONNX} }

\* The kinds of directory an OCR root is populated from: a Paddle model
\* with its dictionary, a directory that holds no model, an ONNX model.
BatchKinds ==
    << MkDir({INFERENCE_JSON, INFERENCE_PDIPARAMS},
             [load |-> "map", pp |-> "dict", cd |-> "chars"]),
       EmptyDir,
       MkDir({FOO_ONNX}, NoYml) >>

Names(n) == { Name(i) : i \in 1..n }

\* An OCR root of n directories whose kinds alternate, beginning at shift.
BatchRoot(n, shift) ==
    [nm \in Names(n) |->
        LET i == CHOOSE k \in 1..n : Name(k) = nm
        IN  BatchKinds[((i + shift) % Len(BatchKinds)) + 1]]

\* Path.__lt__ on two names of the same parent: lexicographic.
LexLess(a, b) ==
    \E k \in 1..(Len(b)) :
        /\ \A j \in 1..(k - 1) : j <= Len(a) /\ a[j] = b[j]
        /\ k - 1 <= Len(a)
        /\ (k = Len(a) + 1 \/ (k <= Len(a) /\ a[k] < b[k]))

\* The orders in which iterdir() may list the directories.
Listings(S) ==
    { s \in [1..Cardinality(S) -> S] : \A i, j \in 1..Cardinality(S) : s[i] = s[j] => i = j }

InitResults ==
    [paddle_to_onnx |-> FALSE, onnx_to_mnn |-> FALSE,
     extract_dict |-> FALSE, success |-> FALSE]

Init ==
    /\ \/ /\ root_exists = FALSE
          /\ fs \in [Names(1) -> UserDirs \cup StrippedDirs]
       \/ /\ root_exists = TRUE
          /\ \E n \in 0..NumModels, shift \in 0..(Len(BatchKinds) - 1) :
                fs = BatchRoot(n, shift)
    /\ pc = "idle"
    /\ exit_status = "none"
    /\ args = [model |-> NoModel, format |-> AUTO]
    /\ model_dirs = <<>>
    /\ todo = <<>>
    /\ idx = 0
    /\ total = 0
    /\ success_count = 0
    /\ failed_models = <<>>
    /\ input_format = AUTO
    /\ onnx_filename = MODEL_ONNX
    /\ mnn_filename = MODEL_MNN
    /\ results = InitResults
    /\ calls = <<>>
    /\ stages_run = <<>>
    /\ dir0 = EmptyDir
    /\ log = <<>>
    /\ prev = NoPrev
    /\ again = FALSE

\* ---------------------------------------------------------------- main
\* The process ends and its memory with it.
ClearLocals ==
    /\ model_dirs' = <<>>
    /\ todo' = <<>>
    /\ idx' = 0
    /\ total' = 0
    /\ success_count' = 0
    /\ failed_models' = <<>>
    /\ input_format' = AUTO
    /\ onnx_filename' = MODEL_ONNX
    /\ mnn_filename' = MODEL_MNN
    /\ results' = InitResults
    /\ calls' = <<>>
    /\ stages_run' = <<>>
    /\ dir0' = EmptyDir
    /\ log' = <<>>
    /\ again' = FALSE

\* sys.exit(code), or main returning (code "0").
Exit(code) ==
    /\ pc' = "idle"
    /\ exit_status' = code
    /\ ClearLocals

\* The values of --model: none, a path that does not exist, or a model
\* directory that lies outside an OCR root.
ModelArgs ==
    {NoModel, MissingModel} \cup (IF root_exists THEN {} ELSE DOMAIN fs)

\* main, argument parsing to the listing of the model directories.
Start(model, format) ==
    /\ pc = "idle"
    /\ args' = [model |-> model, format |-> format]
    /\ IF model # NoModel
       THEN IF model \notin DOMAIN fs
            THEN Exit("1")
            ELSE /\ model_dirs' = <<model>>
                 /\ pc' = "deps"
                 /\ UNCHANGED <<exit_status, todo, idx, total, success_count,
                                failed_models, cm, stages_run, dir0, log, again>>
       ELSE IF ~root_exists
            THEN Exit("1")
            ELSE /\ model_dirs' \in Listings(DOMAIN fs)
                 /\ pc' = "deps"
                 /\ UNCHANGED <<exit_status, todo, idx, total, success_count,
                                failed_models, cm, stages_run, dir0, log, again>>
    /\ UNCHANGED <<env, prev>>

\* Variant: the loop walks the directories in the order of the listing.
ListingOrder(dirs) == dirs

\* sorted(model_dirs)
Sorted(dirs) == SortSeq(dirs, LexLess)

\* main, check_dependencies() to the start of the for loop.
CheckDependencies(ok) ==
    /\ pc = "deps"
    /\ IF ~ok
       THEN Exit("1")
       ELSE IF model_dirs = <<>>
            THEN Exit("0")
            ELSE /\ total' = Len(model_dirs)
                 /\ success_count' = 0
                 /\ failed_models' = <<>>
                 /\ todo' = Sorted(model_dirs)
                 /\ idx' = 1
                 /\ pc' = "loop"
                 /\ UNCHANGED <<exit_status, model_dirs, cm, stages_run,
                                dir0, log, again>>
    /\ UNCHANGED <<env, args, prev>>

\* Variant: a batch with failed models ends with exit code 1.
FailOnFailedModels(failed) == IF failed = <<>> THEN "0" ELSE "1"

\* main returns after the summary: the exit code of the process.
ExitCodeAfterSummary(failed) == "0"

\* The head of `for model_dir in sorted(model_dirs)`: the next call of
\* convert_model, or the summary and the end of main.
LoopHead ==
    /\ pc = "loop"
    /\ IF idx > Len(todo)
       THEN Exit(ExitCodeAfterSummary(failed_models)) /\ UNCHANGED prev
       ELSE /\ pc' = "convert"
            /\ input_format' = args.format
            /\ onnx_filename' = MODEL_ONNX
            /\ mnn_filename' = MODEL_MNN
            /\ results' = InitResults
            /\ calls' = <<>>
            /\ stages_run' = <<>>
            /\ dir0' = fs[todo[idx]]
            /\ again' = (prev = <<todo[idx], args.format>>)
            /\ prev' = NoPrev
            /\ UNCHANGED <<exit_status, batch, log>>
    /\ UNCHANGED <<env, args>>

\* -------------------------------------------------------- convert_model
\* The model directory of the current loop iteration.
cur == todo[idx]

\* Variant: a format that cannot be detected defaults to PADDLE.
ResolveDefaultPaddle(format, d) ==
    IF format # AUTO THEN format
    ELSE IF detect_input_format(d) = NONE THEN PADDLE ELSE detect_input_format(d)

\* convert_model, the resolution of the format argument.
ResolveFormat(format, d) ==
    IF format = AUTO THEN detect_input_format(d) ELSE format

\* results.get(key, default)
ResultsGet(r, key, default) ==
    IF key \in DOMAIN r THEN r[key] ELSE default

\* Variant: all([...]) in place of any([...]).
AllSucceeded(r) == r.paddle_to_onnx /\ r.onnx_to_mnn /\ r.extract_dict

\* any([...]) over the three stage entries of results.
AnySucceeded(r) == r.paddle_to_onnx \/ r.onnx_to_mnn \/ r.extract_dict

\* Variant: convert_onnx_to_mnn is called whatever Paddle->ONNX returned.
AlwaysOnnxToMnn(ok) == "o2m"

\* Variant: a failed Paddle->ONNX ends the pipeline.
SkipDictOnFailure(ok) == IF ok THEN "o2m" ELSE "finish"

\* Where convert_model goes after convert_paddle_to_onnx returned ok.
AfterPaddleToOnnx(ok) == IF ok THEN "o2m" ELSE "dict"

\* Variant: the dictionary is extracted in direct-ONNX mode too.
AlwaysExtractDict(format) == "dict"

\* Where convert_model goes after convert_onnx_to_mnn returned.
AfterOnnxToMnn(format) == IF format = PADDLE THEN "dict" ELSE "finish"

\* The entry of convert_model up to the first stage call.
ConvertModelEnter ==
    /\ pc = "convert"
    /\ LET d   == fs[cur]
           fmt == ResolveFormat(args.format, d)
       IN  IF fmt = NONE
           THEN /\ results' = [success |-> FALSE]
                /\ pc' = "ret"
                /\ UNCHANGED <<input_format, onnx_filename, mnn_filename>>
           ELSE /\ input_format' = fmt
                /\ results' = InitResults
                /\ IF fmt = PADDLE
                   THEN pc' = "p2o" /\ UNCHANGED <<onnx_filename, mnn_filename>>
                   ELSE IF GlobOnnx(d) = {}
                        THEN pc' = "finish" /\ UNCHANGED <<onnx_filename, mnn_filename>>
                        ELSE \E onnx_file \in GlobOnnx(d) :
                                /\ onnx_filename' = onnx_file
                                /\ mnn_filename' = MnnFileFor(onnx_file)
                                /\ pc' = "o2m"
    /\ UNCHANGED <<env, exit_status, args, batch, calls, ghost>>

\* A filesystem probe made outside every try block (Path.exists, glob)
\* raises OSError: the exception leaves convert_model.
ConvertModelRaises ==
    /\ pc = "convert"
    /\ pc' = "except"
    /\ UNCHANGED <<env, exit_status, args, batch, cm, ghost>>

\* ------------------------------------------------------------- stages
\* Variant: no test for an output that is already there.
NeverSkip(inputs_ok, output_exists) ==
    IF ~inputs_ok THEN "False" ELSE "run"

\* Variant: the output is tested before the input.
OutputFirst(inputs_ok, output_exists) ==
    IF output_exists THEN "True" ELSE IF ~inputs_ok THEN "False" ELSE "run"

\* The two checks a stage makes before its work: "False" (input missing),
\* "True" (output already there) or "run".
StageCheck(inputs_ok, output_exists) ==
    IF ~inputs_ok THEN "False" ELSE IF output_exists THEN "True" ELSE "run"

\* Variant: convert_paddle_to_onnx does not look for model.onnx.
PaddleAlwaysConverts(d) ==
    StageCheck(Exists(d, INFERENCE_JSON) /\ Exists(d, INFERENCE_PDIPARAMS), FALSE)

PaddleToOnnxCheck(d) ==
    StageCheck(Exists(d, INFERENCE_JSON) /\ Exists(d, INFERENCE_PDIPARAMS),
               Exists(d, MODEL_ONNX))

OnnxToMnnCheck(d, input_onnx, output_mnn) ==
    StageCheck(Exists(d, input_onnx), Exists(d, output_mnn))

ExtractDictCheck(d) ==
    StageCheck(Exists(d, INFERENCE_YML), Exists(d, PPOCR_KEYS))

\* What subprocess.run ends with: the tool's return code, or an exception
\* (the tool could not be started, or the call failed).
ToolOutcomes == {"ok", "ok_nofile", "fail", "raise"}
SubprocessRun(outcome) ==
    [returncode |-> IF outcome \in {"ok", "ok_nofile"} THEN 0 ELSE 1,
     raised     |-> outcome = "raise"]

\* Variant: the return code is not looked at.
IgnoresReturnCode(run) == [ret |-> ~run.raised, exc |-> FALSE]

\* Variant: no except clause around subprocess.run.
ToolStagePropagates(run) ==
    [ret |-> ~run.raised /\ run.returncode = 0, exc |-> run.raised]

\* The try block around subprocess.run: the stage's return value, and
\* whether an exception leaves the stage.

ToolStageReturn(run) ==
    [ret |-> ~run.raised /\ run.returncode = 0, exc |-> FALSE]

\* Variant: the output of a tool that did not exit zero is removed.
ToolRollsBack(d, out, outcome) ==
    IF outcome = "ok" THEN WriteComplete(d, out)
    ELSE [d EXCEPT !.files = @ \ {out}, !.partial = @ \ {out}]

\* The directory after the tool ended: a tool that exits zero has finished
\* the output it began; any other end leaves what was written.
ToolEffect(d, out, outcome) ==
    IF outcome = "ok" THEN WriteComplete(d, out) ELSE d

\* The command lines; status is "running" until subprocess.run ends, then
\* the return code ("0", "1") or "raised".
PaddleCmd ==
    [tool |-> "paddle2onnx", src |-> INFERENCE_JSON, dst |-> MODEL_ONNX,
     status |-> "running"]
MnnCmd(src, dst) ==
    [tool |-> "mnnconvert", src |-> src, dst |-> dst, status |-> "running"]

CallStatus(run) ==
    IF run.raised THEN "raised" ELSE IF run.returncode = 0 THEN "0" ELSE "1"

\* subprocess.run ended: the latest call gets its status.
CallEnds(run) ==
    calls' = [calls EXCEPT ![Len(calls)].status = CallStatus(run)]

\* convert_paddle_to_onnx came back to convert_model with ok.
PaddleToOnnxReturns(ok) ==
    /\ results' = [results EXCEPT !.paddle_to_onnx = ok]
    /\ pc' = AfterPaddleToOnnx(ok)

\* convert_paddle_to_onnx up to subprocess.run.
convert_paddle_to_onnx ==
    /\ pc = "p2o"
    /\ stages_run' = Append(stages_run, "paddle_to_onnx")
    /\ LET check == PaddleToOnnxCheck(fs[cur])
       IN  IF check = "run"
           THEN /\ calls' = Append(calls, PaddleCmd)
                /\ pc' = "p2o_tool"
                /\ UNCHANGED results
           ELSE /\ PaddleToOnnxReturns(check = "True")
                /\ UNCHANGED calls
    /\ UNCHANGED <<env, exit_status, args, batch, input_format,
                   onnx_filename, mnn_filename, dir0, log, prev, again>>

\* paddle2onnx creates model.onnx and begins to write it.
PaddleToolWrites ==
    /\ pc = "p2o_tool"
    /\ ~Exists(fs[cur], MODEL_ONNX)
    /\ fs' = [fs EXCEPT ![cur] = CreatePartial(@, MODEL_ONNX)]
    /\ UNCHANGED <<root_exists, proc, batch, cm, ghost>>

\* subprocess.run of paddle2onnx ends; the rest of convert_paddle_to_onnx.
PaddleToolExits(outcome) ==
    /\ pc = "p2o_tool"
    /\ outcome = "ok_nofile" => ~Exists(fs[cur], MODEL_ONNX)
    /\ fs' = [fs EXCEPT ![cur] = ToolEffect(@, MODEL_ONNX, outcome)]
    /\ CallEnds(SubprocessRun(outcome))
    /\ LET r == ToolStageReturn(SubprocessRun(outcome))
       IN  IF r.exc
           THEN pc' = "except" /\ UNCHANGED results
           ELSE PaddleToOnnxReturns(r.ret)
    /\ UNCHANGED <<root_exists, exit_status, args, batch, input_format,
                   onnx_filename, mnn_filename, ghost>>

\* convert_onnx_to_mnn came back to convert_model with ok.
OnnxToMnnReturns(ok) ==
    /\ results' = [results EXCEPT !.onnx_to_mnn = ok]
    /\ pc' = AfterOnnxToMnn(input_format)

\* convert_onnx_to_mnn up to subprocess.run.
convert_onnx_to_mnn ==
    /\ pc = "o2m"
    /\ stages_run' = Append(stages_run, "onnx_to_mnn")
    /\ LET check == OnnxToMnnCheck(fs[cur], onnx_filename, mnn_filename)
       IN  IF check = "run"
           THEN /\ calls' = Append(calls, MnnCmd(onnx_filename, mnn_filename))
                /\ pc' = "o2m_tool"
                /\ UNCHANGED results
           ELSE /\ OnnxToMnnReturns(check = "True")
                /\ UNCHANGED calls
    /\ UNCHANGED <<env, exit_status, args, batch, input_format,
                   onnx_filename, mnn_filename, dir0, log, prev, again>>

\* mnnconvert creates its output file and begins to write it.
MnnToolWrites ==
    /\ pc = "o2m_tool"
    /\ ~Exists(fs[cur], mnn_filename)
    /\ fs' = [fs EXCEPT ![cur] = CreatePartial(@, mnn_filename)]
    /\ UNCHANGED <<root_exists, proc, batch, cm, ghost>>

\* subprocess.run of mnnconvert ends; the rest of convert_onnx_to_mnn.
MnnToolExits(outcome) ==
    /\ pc = "o2m_tool"
    /\ outcome = "ok_nofile" => ~Exists(fs[cur], mnn_filename)
    /\ fs' = [fs EXCEPT ![cur] = ToolEffect(@, mnn_filename, outcome)]
    /\ CallEnds(SubprocessRun(outcome))
    /\ LET r == ToolStageReturn(SubprocessRun(outcome))
       IN  IF r.exc
           THEN pc' = "except" /\ UNCHANGED results
           ELSE OnnxToMnnReturns(r.ret)
    /\ UNCHANGED <<root_exists, exit_status, args, batch, input_format,
                   onnx_filename, mnn_filename, ghost>>

\* Variant: a PostProcess that is a list is not searched.
LocateInDictOnly(doc) ==
    IF doc.pp = "dict" THEN doc.cd ELSE "missing"

\* The character_dict that extract_character_dict finds in the document.
LocateCharacterDict(doc) ==
    IF doc.pp \in {"dict", "list"} THEN doc.cd ELSE "missing"

\* `not character_dict` is false.
Truthy(cd) == cd \in {"chars", "scalar"}

\* extract_character_dict came back to convert_model with ok.
ExtractDictReturns(ok) ==
    /\ results' = [results EXCEPT !.extract_dict = ok]
    /\ pc' = "finish"

\* extract_character_dict up to the opening of ppocr_keys.txt for writing.
extract_character_dict ==
    /\ pc = "dict"
    /\ stages_run' = Append(stages_run, "extract_dict")
    /\ LET d     == fs[cur]
           check == ExtractDictCheck(d)
       IN  IF check # "run"
           THEN ExtractDictReturns(check = "True") /\ UNCHANGED fs
           ELSE IF d.yml.load # "map" \/ ~Truthy(LocateCharacterDict(d.yml))
                THEN ExtractDictReturns(FALSE) /\ UNCHANGED fs
                ELSE /\ fs' = [fs EXCEPT ![cur] = CreatePartial(@, PPOCR_KEYS)]
                     /\ pc' = "dict_write"
                     /\ UNCHANGED results
    /\ UNCHANGED <<root_exists, exit_status, args, batch, input_format,
                   onnx_filename, mnn_filename, calls, dir0, log, prev, again>>

\* The loop that writes the entries: iterating a value that is no list
\* raises inside the try block and leaves the file as it was opened.
WriteCharacterDict ==
    /\ pc = "dict_write"
    /\ IF LocateCharacterDict(fs[cur].yml) = "scalar"
       THEN ExtractDictReturns(FALSE) /\ UNCHANGED fs
       ELSE /\ fs' = [fs EXCEPT ![cur] = WriteComplete(@, PPOCR_KEYS)]
            /\ ExtractDictReturns(TRUE)
    /\ UNCHANGED <<root_exists, exit_status, args, batch, input_format,
                   onnx_filename, mnn_filename, calls, ghost>>

\* results['success'] = any([...]); return results
ConvertModelFinish ==
    /\ pc = "finish"
    /\ results' = [results EXCEPT !.success = AnySucceeded(results)]
    /\ pc' = "ret"
    /\ UNCHANGED <<env, exit_status, args, batch, input_format,
                   onnx_filename, mnn_filename, calls, ghost>>

\* ------------------------------------------------- main, the loop body
\* Variant: success_count is incremented for every model that returned.
CountEveryReturn(ok, count) == count + 1

CountAfterReturn(ok, count) == IF ok THEN count + 1 ELSE count

FailedAfterReturn(ok, failed, name) == IF ok THEN failed ELSE Append(failed, name)

\* Variant: the except clause records nothing.
DropException(failed, name) == failed

\* The except clause of the loop body.
FailedAfterException(failed, name) == Append(failed, name)

\* Variant: an exception ends the loop.
AbortBatch(i, n) == n + 1

\* The loop position after the except clause (n is the length of the list).
IndexAfterException(i, n) == i + 1

\* convert_model returned: main counts the model.
ConvertModelReturns ==
    /\ pc = "ret"
    /\ LET ok == ResultsGet(results, "success", FALSE)
       IN  /\ success_count' = CountAfterReturn(ok, success_count)
           /\ failed_models' = FailedAfterReturn(ok, failed_models, cur)
           /\ log' = Append(log, <<cur, IF ok THEN "ok" ELSE "fail">>)
    /\ prev' = <<cur, args.format>>
    /\ idx' = idx + 1
    /\ pc' = "loop"
    /\ UNCHANGED <<env, exit_status, args, model_dirs, todo, total, cm,
                   stages_run, dir0, again>>

\* An exception left convert_model: the except clause of the loop body.
ConvertModelExcept ==
    /\ pc = "except"
    /\ failed_models' = FailedAfterException(failed_models, cur)
    /\ log' = Append(log, <<cur, "raise">>)
    /\ idx' = IndexAfterException(idx, Len(todo))
    /\ pc' = "loop"
    /\ UNCHANGED <<env, exit_status, args, model_dirs, todo, total,
                   success_count, cm, stages_run, dir0, prev, again>>

\* The process is terminated from outside, wherever it is.
Terminate ==
    /\ pc # "idle"
    /\ Exit("killed")
    /\ UNCHANGED <<env, args, prev>>

Next ==
    \/ \E model \in ModelArgs, format \in InputFormat :
          Start(model, format)
    \/ \E ok \in BOOLEAN : CheckDependencies(ok)
    \/ LoopHead
    \/ ConvertModelEnter
    \/ ConvertModelRaises
    \/ convert_paddle_to_onnx
    \/ PaddleToolWrites
    \/ \E outcome \in ToolOutcomes : PaddleToolExits(outcome)
    \/ convert_onnx_to_mnn
    \/ MnnToolWrites
    \/ \E outcome \in ToolOutcomes : MnnToolExits(outcome)
    \/ extract_character_dict
    \/ WriteCharacterDict
    \/ ConvertModelFinish
    \/ ConvertModelReturns
    \/ ConvertModelExcept
    \/ Terminate

Spec == Init /\ [][Next]_vars

\* ------------------------------------------------- runs that are repeated
\* A Paddle model directory with a character dictionary in inference.yml,
\* given with --model; it may hold ONNX files as well.
RetryDirs ==
    { d \in UserDirs :
        /\ {INFERENCE_JSON, INFERENCE_PDIPARAMS} \subseteq d.files
        /\ d.yml.load = "map"
        /\ d.yml.pp \in {"dict", "list"}
        /\ d.yml.cd = "chars" }

RetryInit ==
    /\ Init
    /\ ~root_exists
    /\ fs \in [Names(1) -> RetryDirs]

\* The runs the retries consist of: the program is started on the
\* directory with --format auto or paddle, the required tools are installed
\* and the process runs to its end; a tool that is invoked may exit in any
\* way.
RetryNext ==
    \/ \E format \in {PADDLE, AUTO} : Start(Name(1), format)
    \/ CheckDependencies(TRUE)
    \/ LoopHead
    \/ ConvertModelEnter
    \/ convert_paddle_to_onnx
    \/ PaddleToolWrites
    \/ \E outcome \in ToolOutcomes : PaddleToolExits(outcome)
    \/ convert_onnx_to_mnn
    \/ MnnToolWrites
    \/ \E outcome \in ToolOutcomes : MnnToolExits(outcome)
    \/ extract_character_dict
    \/ WriteCharacterDict
    \/ ConvertModelFinish
    \/ ConvertModelReturns

\* The steps of the program itself, and the next start.
ProgramStep ==
    \/ \E format \in {PADDLE, AUTO} : Start(Name(1), format)
    \/ CheckDependencies(TRUE)
    \/ LoopHead
    \/ ConvertModelEnter
    \/ convert_paddle_to_onnx
    \/ convert_onnx_to_mnn
    \/ extract_character_dict
    \/ WriteCharacterDict
    \/ ConvertModelFinish
    \/ ConvertModelReturns

\* The program is sequential and blocks in subprocess.run: it takes its
\* next step whenever it has one, and it is started again when it has
\* ended.  Each tool, invoked again and again, eventually writes its
\* output and exits zero.
RetryFairness ==
    /\ WF_vars(ProgramStep)
    /\ SF_vars(PaddleToolExits("ok"))
    /\ SF_vars(MnnToolExits("ok"))

RetrySpec == RetryInit /\ [][RetryNext]_vars /\ RetryFairness

\* ================================================================ claims
Range(seq) == { seq[i] : i \in 1..Len(seq) }

Stages == {"paddle_to_onnx", "onnx_to_mnn", "extract_dict"}

\* convert_model is past its entry and has not raised.
InPipeline ==
    pc \in {"p2o", "p2o_tool", "o2m", "o2m_tool", "dict", "dict_write", "finish", "ret"}

\* convert_model has built the full results mapping and every stage call of
\* this run has come back.
StagesOver == pc \in {"finish", "ret"} /\ DOMAIN results = DOMAIN InitResults

\* The declared input and output artifacts of a stage of the current run,
\* and the tool it drives.
StageInputs(s) ==
    IF s = "paddle_to_onnx" THEN {INFERENCE_JSON, INFERENCE_PDIPARAMS}
    ELSE IF s = "onnx_to_mnn" THEN {onnx_filename}
    ELSE {INFERENCE_YML}

StageOutput(s) ==
    IF s = "paddle_to_onnx" THEN MODEL_ONNX
    ELSE IF s = "onnx_to_mnn" THEN mnn_filename
    ELSE PPOCR_KEYS

StageTool(s) ==
    IF s = "paddle_to_onnx" THEN "paddle2onnx"
    ELSE IF s = "onnx_to_mnn" THEN "mnnconvert"
    ELSE "none"

\* The calls of a stage's tool made by the current run.
ToolCalls(s) == { i \in 1..Len(calls) : calls[i].tool = StageTool(s) }

\* The stage's input was there when the stage began.  model.onnx, the input
\* of ONNX->MNN in a Paddle run, may be written by the stage before it; every
\* other input is written by nobody.
InputsExisted(s) ==
    IF s = "onnx_to_mnn" /\ input_format = PADDLE
    THEN onnx_filename \in fs[cur].files
    ELSE StageInputs(s) \subseteq dir0.files

\* The stage's output was there when the stage began: only the stage itself
\* writes it.
OutputExisted(s) == StageOutput(s) \in dir0.files

HasPaddleFiles(d) == {INFERENCE_JSON, INFERENCE_PDIPARAMS} \subseteq d.files
HasOnnxFile(d) == \E f \in d.files : f[2] = "onnx"

\* C10: whenever convert_model resolved an AUTO format argument, the
\* resolved input_format is PADDLE exactly when the directory held both
\* inference.json and inference.pdiparams (an *.onnx file beside them or
\* not), ONNX exactly when it did not and held some *.onnx file, and in
\* every other case nothing was resolved: the format stays AUTO and
\* convert_model is returning {'success': False} with no stage run.
C10_Detection ==
    (InPipeline /\ args.format = AUTO) =>
        /\ input_format = PADDLE <=> HasPaddleFiles(dir0)
        /\ input_format = ONNX <=> (~HasPaddleFiles(dir0) /\ HasOnnxFile(dir0))
        /\ (~HasPaddleFiles(dir0) /\ ~HasOnnxFile(dir0)) <=>
              (input_format = AUTO /\ pc = "ret" /\ results = [success |-> FALSE]
               /\ stages_run = <<>>)

\* A directory with both Paddle files and foo.onnx was detected as PADDLE.
C10_Witness ==
    /\ pc = "p2o"
    /\ args.format = AUTO
    /\ HasPaddleFiles(dir0)
    /\ FOO_ONNX \in dir0.files
    /\ input_format = PADDLE

\* C4: in every result convert_model returns, success is true exactly when
\* one of the stages the run attempted reported success.
C4_LenientSuccess ==
    pc = "ret" =>
        (ResultsGet(results, "success", FALSE)
            <=> \E s \in Range(stages_run) : results[s])

\* Only DictionaryExtraction succeeded, after a failed Paddle->ONNX, and the
\* result says success.
C4_Witness ==
    /\ pc = "ret"
    /\ stages_run = <<"paddle_to_onnx", "extract_dict">>
    /\ results = [paddle_to_onnx |-> FALSE, onnx_to_mnn |-> FALSE,
                  extract_dict |-> TRUE, success |-> TRUE]

\* C2: in a run resolved to PADDLE, once Paddle->ONNX has come back,
\* ONNX->MNN is run exactly when Paddle->ONNX reported success; when it
\* failed, mnnconvert is not invoked and onnx_to_mnn stays false, so
\* onnx_to_mnn implies paddle_to_onnx.
C2_ShortCircuit ==
    (input_format = PADDLE /\ pc \in {"dict", "dict_write", "finish", "ret"}) =>
        /\ ("onnx_to_mnn" \in Range(stages_run)) <=> results.paddle_to_onnx
        /\ ~results.paddle_to_onnx =>
              (ToolCalls("onnx_to_mnn") = {} /\ ~results.onnx_to_mnn)
        /\ results.onnx_to_mnn => results.paddle_to_onnx

\* paddle2onnx was invoked and failed; the run went on without ONNX->MNN.
C2_Witness ==
    /\ pc = "ret"
    /\ input_format = PADDLE
    /\ \E i \in ToolCalls("paddle_to_onnx") : calls[i].status = "1"
    /\ ~results.paddle_to_onnx
    /\ "onnx_to_mnn" \notin Range(stages_run)

\* C3: in every run resolved to PADDLE that comes to its end,
\* DictionaryExtraction was run exactly once, whatever the two conversion
\* stages did, and results records what it did: extract_dict is true exactly
\* when inference.yml exists and ppocr_keys.txt was already there or has
\* been written in full.
C3_DictionaryIndependence ==
    (input_format = PADDLE /\ pc \in {"finish", "ret"}) =>
        /\ Cardinality({ i \in 1..Len(stages_run) : stages_run[i] = "extract_dict" }) = 1
        /\ results.extract_dict <=>
              /\ INFERENCE_YML \in fs[cur].files
              /\ PPOCR_KEYS \in fs[cur].files
              /\ (PPOCR_KEYS \in dir0.files \/ PPOCR_KEYS \notin fs[cur].partial)

\* Paddle->ONNX found its input missing and the dictionary was still
\* extracted.
C3_Witness ==
    /\ pc = "ret"
    /\ input_format = PADDLE
    /\ ~HasPaddleFiles(dir0)
    /\ ~results.paddle_to_onnx
    /\ results.extract_dict
    /\ PPOCR_KEYS \notin dir0.files
    /\ PPOCR_KEYS \in fs[cur].files

\* The three inputs and the three outputs of the Paddle pipeline.
PaddleInputs  == {INFERENCE_JSON, INFERENCE_PDIPARAMS, INFERENCE_YML}
PaddleOutputs == {MODEL_ONNX, MODEL_MNN, PPOCR_KEYS}

\* The run made no subprocess call and left the directory as it found it.
NothingDone == calls = <<>> /\ fs[cur] = dir0

\* C1 as stated, for a Paddle directory that holds the three inputs with a
\* character dictionary in inference.yml: whenever convert_model returns
\* from a call that directly follows a returned call for the same directory
\* and format in a process that ran to its end, it reports every stage
\* succeeded, has invoked no external tool and has left the artifacts as the
\* first run left them.
C1_AsStated ==
    (/\ pc = "ret" /\ again /\ exit_status = "0"
     /\ input_format = PADDLE
     /\ PaddleInputs \subseteq dir0.files
     /\ LocateCharacterDict(dir0.yml) = "chars") =>
        /\ DOMAIN results = DOMAIN InitResults
        /\ AllSucceeded(results)
        /\ NothingDone

\* C1 amended: a run that begins with the inputs and every output artifact
\* of its format in place (three inputs and three outputs for PADDLE; an
\* .mnn file beside every *.onnx file for ONNX) reports success for every
\* stage it attempts, invokes no external tool and leaves the directory as
\* it found it.
C1_Idempotence ==
    pc = "ret" =>
        /\ (input_format = PADDLE /\ (PaddleInputs \cup PaddleOutputs) \subseteq dir0.files)
              => (AllSucceeded(results) /\ stages_run = <<"paddle_to_onnx", "onnx_to_mnn", "extract_dict">>
                  /\ NothingDone)
        /\ (input_format = ONNX /\ HasOnnxFile(dir0)
              /\ \A f \in dir0.files : f[2] = "onnx" => MnnFileFor(f) \in dir0.files)
              => (results.onnx_to_mnn /\ stages_run = <<"onnx_to_mnn">> /\ NothingDone)

\* A second run in succession found everything in place and did nothing.
C1_Witness ==
    /\ pc = "ret"
    /\ again
    /\ input_format = PADDLE
    /\ (PaddleInputs \cup PaddleOutputs) \subseteq dir0.files
    /\ AllSucceeded(results)
    /\ NothingDone

\* The stage wrote nothing: its output file is as it was when the run began.
OutputUntouched(s) ==
    /\ StageOutput(s) \in fs[cur].files <=> StageOutput(s) \in dir0.files
    /\ StageOutput(s) \in fs[cur].partial <=> StageOutput(s) \in dir0.partial

\* C6 as stated: every stage that began with its output artifact in place
\* reported success, invoked no external process and wrote no file.
C6_AsStated ==
    StagesOver =>
        \A s \in Range(stages_run) :
            OutputExisted(s) =>
                (results[s] /\ ToolCalls(s) = {} /\ OutputUntouched(s))

\* C6 amended: every stage that began with its required input in place and
\* its output artifact in place reported success, invoked no external process
\* and wrote no file.
C6_CheckBeforeTool ==
    StagesOver =>
        \A s \in Range(stages_run) :
            (InputsExisted(s) /\ OutputExisted(s)) =>
                (results[s] /\ ToolCalls(s) = {} /\ OutputUntouched(s))

\* DictionaryExtraction found ppocr_keys.txt in place and left it alone, in
\* a run where Paddle->ONNX had to invoke its tool.
C6_Witness ==
    /\ StagesOver
    /\ input_format = PADDLE
    /\ {INFERENCE_YML, PPOCR_KEYS} \subseteq dir0.files
    /\ results.extract_dict
    /\ OutputUntouched("extract_dict")
    /\ ToolCalls("paddle_to_onnx") # {}

\* The dictionary stage found no usable character_dict in inference.yml.
DictParseFailed ==
    /\ INFERENCE_YML \in dir0.files
    /\ \/ dir0.yml.load # "map"
       \/ ~Truthy(LocateCharacterDict(dir0.yml))
       \/ LocateCharacterDict(dir0.yml) = "scalar"

\* The failures of a stage that the stage must turn into its outcome.
StageFailed(s) ==
    \/ ~InputsExisted(s)
    \/ \E i \in ToolCalls(s) : calls[i].status \in {"1", "raised"}
    \/ s = "extract_dict" /\ ~OutputExisted(s) /\ DictParseFailed

\* C7: an exception reaches the loop body's except clause only when no
\* stage of the run was entered, and at the end of a run every stage that
\* met a missing input, a nonzero exit, a failed invocation or a parse
\* failure is recorded as not succeeded.
C7_StageFailuresContained ==
    /\ pc = "except" => stages_run = <<>>
    /\ StagesOver =>
          \A s \in Range(stages_run) : StageFailed(s) => ~results[s]

\* subprocess.run raised for paddle2onnx, and convert_model still returns a
\* result with that stage false.
C7_Witness ==
    /\ pc = "ret"
    /\ \E i \in ToolCalls("paddle_to_onnx") : calls[i].status = "raised"
    /\ ~results.paddle_to_onnx
    /\ "extract_dict" \in Range(stages_run)

\* C8 as stated: in a run that follows a terminated process, every stage
\* that was skipped as done (it reported success on finding its output)
\* found a complete output; an output left incomplete is retried.
C8_AsStated ==
    (exit_status = "killed" /\ InPipeline /\ DOMAIN results = DOMAIN InitResults) =>
        \A s \in Range(stages_run) :
            (results[s] /\ OutputExisted(s)) => StageOutput(s) \notin dir0.partial

\* A directory in which convert_model with AUTO resolves no format.
Undetectable(d) == ~HasPaddleFiles(d) /\ ~HasOnnxFile(d)

\* C9: with format AUTO in a directory with neither both Paddle files nor
\* an *.onnx file, the step that enters convert_model goes straight to its
\* return with {'success': False}, no stage run, no subprocess call and the
\* directory untouched; and the loop body's step that follows a result
\* without success appends the model to failed_models, leaves
\* success_count alone and moves on to the next model.
C9_Undetectable ==
    [][ /\ (pc = "convert" /\ pc' \notin {"except", "idle"}
              /\ args.format = AUTO /\ Undetectable(fs[cur]))
           => (/\ pc' = "ret"
               /\ results' = [success |-> FALSE]
               /\ stages_run' = <<>>
               /\ calls' = <<>>
               /\ fs' = fs)
        /\ (pc = "ret" /\ pc' # "idle" /\ ~ResultsGet(results, "success", FALSE))
           => (/\ failed_models' = Append(failed_models, cur)
               /\ success_count' = success_count
               /\ idx' = idx + 1
               /\ pc' = "loop")
      ]_vars

\* An undetectable first model was recorded as failed and the loop is at
\* the second model.
C9_Witness ==
    /\ pc = "loop"
    /\ args.format = AUTO
    /\ Len(todo) = 2
    /\ idx = 2
    /\ Undetectable(fs[todo[1]])
    /\ log = << <<todo[1], "fail">> >>
    /\ failed_models = <<todo[1]>>
    /\ success_count = 0

\* The names of the log entries that are not "ok", in order.
RECURSIVE FailedOf(_)
FailedOf(l) ==
    IF l = <<>> THEN <<>>
    ELSE IF Head(l)[2] = "ok" THEN FailedOf(Tail(l))
    ELSE <<Head(l)[1]>> \o FailedOf(Tail(l))

OkCount(l) == Cardinality({ i \in 1..Len(l) : l[i][2] = "ok" })

\* C5: while the batch loop runs, the models processed so far are exactly
\* the first idx-1 of the sorted list, one log entry each; failed_models is
\* the names of those that returned without success or raised, in order,
\* and success_count the number of the others; so a model that raised is in
\* failed_models, is not counted as a success, changes no other model's
\* record and does not stop the loop before the end of the list.
C5_BatchIsolation ==
    (pc \notin {"idle", "deps"}) =>
        /\ idx <= Len(todo) + 1
        /\ Len(log) = idx - 1
        /\ \A i \in 1..Len(log) : log[i][1] = todo[i]
        /\ failed_models = FailedOf(log)
        /\ success_count = OkCount(log)
        /\ pc # "loop" => idx <= Len(todo)

\* The first model raised, the second was then processed and succeeded.
C5_Witness ==
    /\ pc = "loop"
    /\ Len(todo) = 2
    /\ idx = 3
    /\ log = << <<todo[1], "raise">>, <<todo[2], "ok">> >>
    /\ failed_models = <<todo[1]>>
    /\ success_count = 1

\* The file is as it was when the current call of convert_model began.
Untouched(f) ==
    /\ f \in fs[cur].files <=> f \in dir0.files
    /\ f \in fs[cur].partial <=> f \in dir0.partial

\* C11: in a run whose resolved format is ONNX, at every point of the
\* pipeline the only stage that has been run is ONNX->MNN, at most once;
\* paddle2onnx has not been invoked, ppocr_keys.txt is as the run found it,
\* and the paddle_to_onnx and extract_dict entries of results are false.
C11_DirectOnnxMode ==
    (InPipeline /\ input_format = ONNX) =>
        /\ stages_run \in {<<>>, <<"onnx_to_mnn">>}
        /\ \A i \in 1..Len(calls) : calls[i].tool = "mnnconvert"
        /\ Untouched(PPOCR_KEYS)
        /\ ~results.paddle_to_onnx
        /\ ~results.extract_dict

\* A directory detected as ONNX that holds an inference.yml with a
\* character dictionary: mnnconvert ran and succeeded, and the run returns
\* without ppocr_keys.txt.
C11_Witness ==
    /\ pc = "ret"
    /\ args.format = AUTO
    /\ input_format = ONNX
    /\ LocateCharacterDict(dir0.yml) = "chars"
    /\ \E i \in 1..Len(calls) : calls[i].status = "0"
    /\ results.onnx_to_mnn
    /\ PPOCR_KEYS \notin fs[cur].files

\* The directory the command line names does not exist: the --model path,
\* or the OCR root when --model is not given.
MissingDirectory ==
    IF args.model # NoModel THEN args.model \notin DOMAIN fs ELSE ~root_exists

\* The step ends the process by sys.exit or by the return of main.
ProcessEnds == pc' = "idle" /\ exit_status' # "killed"

Processed == { todo[i] : i \in 1..(idx - 1) }

\* C13: while the batch loop runs, the list it walks holds the listed
\* directories in strictly ascending lexicographic order, the iterations
\* so far were those of its first idx-1 entries in that order, one at a
\* time, and failed_models holds processed models only, in the order of the
\* list: it is the list with the models that are not in it left out.
C13_BatchOrder ==
    (pc \notin {"idle", "deps"}) =>
        /\ Range(todo) = Range(model_dirs) /\ Len(todo) = Len(model_dirs)
        /\ \A i, j \in 1..Len(todo) : i < j => LexLess(todo[i], todo[j])
        /\ \A i \in 1..Len(log) : log[i][1] = todo[i]
        /\ Range(failed_models) \subseteq Processed
        /\ failed_models = SelectSeq(todo, LAMBDA m : m \in Range(failed_models))

\* The listing gave two directories in descending order; both failed, and
\* failed_models holds them in ascending order.
C13_Witness ==
    /\ pc = "loop"
    /\ Len(todo) = 2
    /\ model_dirs = <<todo[2], todo[1]>>
    /\ idx = 3
    /\ failed_models = todo

\* The output file of the stage that is at work, if one is.
WritingStage == pc \in {"p2o_tool", "o2m_tool", "dict", "dict_write"}
RunningOutput ==
    IF pc = "p2o_tool" THEN MODEL_ONNX
    ELSE IF pc = "o2m_tool" THEN mnn_filename
    ELSE PPOCR_KEYS

\* C14: in every step, in every model directory, each file that is present
\* stays present and inference.yml keeps its content; a file that appears
\* is the declared output of the stage at work in the directory of the
\* current model, and the only content that changes is that of a file the
\* same run created (its writer finishes it): no file that was there when
\* the run began is deleted or written again.
C14_NoRollback ==
    [][ \A m \in DOMAIN fs :
          /\ fs[m].files \subseteq fs'[m].files
          /\ fs'[m].yml = fs[m].yml
          /\ \A f \in fs'[m].files \ fs[m].files :
                WritingStage /\ m = cur /\ f = RunningOutput
          /\ \A f \in fs[m].files :
                \/ f \in fs[m].partial <=> f \in fs'[m].partial
                \/ /\ WritingStage /\ m = cur /\ f = RunningOutput
                   /\ f \notin dir0.files
                   /\ f \in fs[m].partial /\ f \notin fs'[m].partial
      ]_vars

\* paddle2onnx created model.onnx and exited nonzero; the run is over and
\* the incomplete file is still there, beside every file the run found.
C14_Witness ==
    /\ pc = "ret"
    /\ \E i \in ToolCalls("paddle_to_onnx") : calls[i].status = "1"
    /\ MODEL_ONNX \notin dir0.files
    /\ MODEL_ONNX \in fs[cur].partial
    /\ dir0.files \subseteq fs[cur].files

\* C15: in a run resolved to ONNX, once ONNX->MNN has been entered, its
\* source is an *.onnx file the run found in the directory; every call of
\* the converter names that file as its source and the same stem with the
\* extension mnn as its destination; and when the stage is over, the
\* converter was left out exactly when the file of that derived name was
\* already there, in which case the stage reported success.
C15_DirectOnnxNaming ==
    (InPipeline /\ input_format = ONNX /\ stages_run # <<>>) =>
        LET derived == <<onnx_filename[1], "mnn">>
        IN  /\ onnx_filename \in dir0.files /\ onnx_filename[2] = "onnx"
            /\ \A i \in 1..Len(calls) :
                  calls[i].src = onnx_filename /\ calls[i].dst = derived
            /\ StagesOver =>
                  /\ calls = <<>> <=> derived \in dir0.files
                  /\ calls = <<>> => results.onnx_to_mnn

\* The run found foo.onnx in a directory that already held model.mnn:
\* mnnconvert was called with foo.onnx and foo.mnn, and foo.mnn is there.
C15_Witness ==
    /\ pc = "ret"
    /\ input_format = ONNX
    /\ MODEL_MNN \in dir0.files
    /\ calls = << [tool |-> "mnnconvert", src |-> FOO_ONNX,
                   dst |-> <<"foo", "mnn">>, status |-> "0"] >>
    /\ <<"foo", "mnn">> \in fs[cur].files \ dir0.files

\* C16: at the end of a run, every stage that began with a required input
\* missing reported not-succeeded, invoked no external tool and wrote
\* nothing, whether or not its output artifact was there.
C16_MissingInputWins ==
    StagesOver =>
        \A s \in Range(stages_run) :
            ~InputsExisted(s) =>
                (~results[s] /\ ToolCalls(s) = {} /\ OutputUntouched(s))

\* The input of a stage of the run was missing while its output existed.
MissingInputExistingOutput(s) ==
    /\ s \in Range(stages_run)
    /\ ~InputsExisted(s)
    /\ StageOutput(s) \in fs[cur].files
    /\ ~results[s]

\* A PADDLE run over a directory that holds inference.json,
\* inference.pdiparams, model.mnn and ppocr_keys.txt but neither model.onnx
\* nor inference.yml: paddle2onnx exited zero without writing model.onnx,
\* and ONNX->MNN and DictionaryExtraction both reported not-succeeded
\* beside their existing outputs.
C16_Witness ==
    /\ pc = "ret"
    /\ input_format = PADDLE
    /\ results.paddle_to_onnx
    /\ MissingInputExistingOutput("onnx_to_mnn")
    /\ MissingInputExistingOutput("extract_dict")
    /\ ToolCalls("onnx_to_mnn") = {}

\* The stages that drive an external tool.
ToolStages == {"paddle_to_onnx", "onnx_to_mnn"}

\* The stage's tool was invoked and exited with status zero.
ExitedZero(s) == \E i \in ToolCalls(s) : calls[i].status = "0"

\* C17: at the end of a run, every tool stage that invoked its tool
\* reported success exactly when the tool exited with status zero, whether
\* or not the output file is there; and in a PADDLE run where paddle2onnx
\* exited zero and model.onnx does not exist, paddle_to_onnx is true,
\* ONNX->MNN was run, reported not-succeeded and did not invoke mnnconvert.
C17_ExitStatusDecides ==
    StagesOver =>
        /\ \A s \in ToolStages \cap Range(stages_run) :
              ToolCalls(s) # {} => (results[s] <=> ExitedZero(s))
        /\ (input_format = PADDLE /\ ExitedZero("paddle_to_onnx")
               /\ MODEL_ONNX \notin fs[cur].files) =>
              /\ results.paddle_to_onnx
              /\ "onnx_to_mnn" \in Range(stages_run)
              /\ ~results.onnx_to_mnn
              /\ ToolCalls("onnx_to_mnn") = {}

\* paddle2onnx exited zero and wrote no model.onnx: Paddle->ONNX succeeded,
\* ONNX->MNN was entered and failed without a call of mnnconvert.
C17_Witness ==
    /\ pc = "ret"
    /\ input_format = PADDLE
    /\ calls = << [tool |-> "paddle2onnx", src |-> INFERENCE_JSON,
                   dst |-> MODEL_ONNX, status |-> "0"] >>
    /\ MODEL_ONNX \notin fs[cur].files
    /\ results.paddle_to_onnx
    /\ stages_run = <<"paddle_to_onnx", "onnx_to_mnn", "extract_dict">>
    /\ ~results.onnx_to_mnn

\* C18: no step changes what detect_input_format returns for any model
\* directory: whatever the runs create (model.onnx, an .mnn file,
\* ppocr_keys.txt, complete or not), a directory detected as PADDLE stays
\* PADDLE, one detected as ONNX stays ONNX and one with no detectable
\* format stays so.
C18_FormatStability ==
    [][ \A m \in DOMAIN fs :
            detect_input_format(fs'[m]) = detect_input_format(fs[m]) ]_vars

\* An AUTO run resolved PADDLE in a directory that held none of the three
\* outputs and created them all; the directory is still detected as PADDLE.
C18_Witness ==
    /\ pc = "ret"
    /\ args.format = AUTO
    /\ input_format = PADDLE
    /\ PaddleOutputs \cap dir0.files = {}
    /\ PaddleOutputs \subseteq fs[cur].files
    /\ GlobOnnx(dir0) = {}
    /\ detect_input_format(fs[cur]) = PADDLE

\* C19: while the batch loop runs, total is the length of the list, and
\* success_count plus the length of failed_models is the number of
\* finished iterations (all of them, total, when the loop is over);
\* failed_models names no model twice and only finished ones, and
\* success_count is the number of finished models it does not name, so
\* every finished model is counted exactly once.
C19_SummaryPartition ==
    (pc \notin {"idle", "deps"}) =>
        /\ total = Len(todo)
        /\ success_count + Len(failed_models) = idx - 1
        /\ (pc = "loop" /\ idx > Len(todo)) =>
              success_count + Len(failed_models) = total
        /\ Cardinality(Range(failed_models)) = Len(failed_models)
        /\ Range(failed_models) \subseteq Processed
        /\ success_count = Cardinality(Processed \ Range(failed_models))

\* The loop over two models is over: the first succeeded, the second
\* raised, and the counts add up to total.
C19_Witness ==
    /\ pc = "loop"
    /\ total = 2
    /\ idx = 3
    /\ log = << <<todo[1], "ok">>, <<todo[2], "raise">> >>
    /\ success_count = 1
    /\ failed_models = <<todo[2]>>

\* The three outputs exist, and a PADDLE run that began with them in place
\* and has returned made no subprocess call and reports every stage
\* succeeded.
Converged ==
    /\ PaddleOutputs \subseteq fs[Name(1)].files
    /\ (pc = "ret" /\ input_format = PADDLE /\ PaddleOutputs \subseteq dir0.files) =>
          (AllSucceeded(results) /\ calls = <<>>)

\* C20: for a directory that holds inference.json, inference.pdiparams and
\* an inference.yml with a non-empty character dictionary, when the runs
\* are repeated and each tool that is invoked again and again eventually
\* writes its output and exits zero, then from some point on model.onnx,
\* model.mnn and ppocr_keys.txt all exist and every PADDLE run that begins
\* after that point returns with no tool invoked and all three stages
\* reported succeeded.
C20_Convergence == <>[]Converged

\* After a run in which a tool failed and left its output incomplete, a
\* run found the three outputs in place, invoked no tool and reports the
\* three stages succeeded.
C20_Witness ==
    /\ pc = "ret"
    /\ again
    /\ input_format = PADDLE
    /\ PaddleOutputs \subseteq dir0.files
    /\ dir0.partial # {}
    /\ AllSucceeded(results)
    /\ calls = <<>>

====
